---- MODULE Spec2Model ----
(***************************************************************************)
(* Transaction dashboard: date normalisation, filter predicates, filter    *)
(* merge, aggregates, the mount-time fetch and the stat cards' filter      *)
(* handlers.                                                               *)
(*                                                                         *)
(* JavaScript strings are sequences of one-character strings, so that      *)
(* split, trim, parseInt, parseFloat, padStart, toLowerCase and includes   *)
(* are computed character by character.  A nullable string that is null is *)
(* the one-element sequence null, whose element is not a character.        *)
(* JavaScript numbers are records [nan, n, d]: NaN, or the rational n/d    *)
(* in lowest terms (binary rounding of fractions is not modelled).         *)
(* A Date is a record [valid, day, sec]: Invalid Date, or a local time as  *)
(* days since 1970-01-01 and seconds within the day (daylight-saving       *)
(* shifts of the host zone are not modelled).                              *)
(***************************************************************************)
EXTENDS Integers, Sequences, FiniteSets, TLC

----------------------------------------------------------------------------
(* Strings *)

null == <<"<null>">>

Digits == <<"0", "1", "2", "3", "4", "5", "6", "7", "8", "9">>

IsDigit(c) == \E i \in 1..Len(Digits) : Digits[i] = c

DigitVal(c) == (CHOOSE i \in 1..Len(Digits) : Digits[i] = c) - 1

IsSpace(c) == c \in {" ", "\t", "\n"}

Upper == <<"A", "B", "C", "D", "L", "N">>

Lower == <<"a", "b", "c", "d", "l", "n">>

\* String.prototype.toLowerCase, one character
LowerChar(c) ==
  IF \E i \in 1..Len(Upper) : Upper[i] = c
    THEN Lower[CHOOSE i \in 1..Len(Upper) : Upper[i] = c]
    ELSE c

\* String.prototype.toLowerCase
toLowerCase(s) == [i \in 1..Len(s) |-> LowerChar(s[i])]

\* String.prototype.includes
includes(s, sub) ==
  \E i \in 0..(Len(s) - Len(sub)) :
    \A j \in 1..Len(sub) : s[i + j] = sub[j]

RECURSIVE TrimStart(_)
TrimStart(s) ==
  IF s # <<>> /\ IsSpace(Head(s)) THEN TrimStart(Tail(s)) ELSE s

RECURSIVE TrimEnd(_)
TrimEnd(s) ==
  IF s # <<>> /\ IsSpace(s[Len(s)])
    THEN TrimEnd(SubSeq(s, 1, Len(s) - 1))
    ELSE s

\* String.prototype.trim
trim(s) == TrimEnd(TrimStart(s))

\* String.prototype.split with a one-character separator: a sequence of strings
RECURSIVE SplitFrom(_, _, _)
SplitFrom(s, sep, cur) ==
  IF s = <<>> THEN <<cur>>
  ELSE IF Head(s) = sep THEN <<cur>> \o SplitFrom(Tail(s), sep, <<>>)
  ELSE SplitFrom(Tail(s), sep, Append(cur, Head(s)))

split(s, sep) == SplitFrom(s, sep, <<>>)

\* Number to decimal string (String(n), template literal)
RECURSIVE NatToString(_)
NatToString(n) ==
  IF n < 10 THEN <<Digits[n + 1]>>
  ELSE Append(NatToString(n \div 10), Digits[(n % 10) + 1])

NumToString(n) == IF n < 0 THEN <<"-">> \o NatToString(0 - n) ELSE NatToString(n)

\* String.prototype.padStart(width, "0")
RECURSIVE padStart(_, _)
padStart(s, width) == IF Len(s) >= width THEN s ELSE padStart(<<"0">> \o s, width)

----------------------------------------------------------------------------
(* Numbers *)

NaN == [nan |-> TRUE, n |-> 0, d |-> 1]

RECURSIVE Gcd(_, _)
Gcd(a, b) == IF b = 0 THEN a ELSE Gcd(b, a % b)

Abs(a) == IF a < 0 THEN 0 - a ELSE a

Num(a, b) ==
  LET g == Gcd(Abs(a), b) IN [nan |-> FALSE, n |-> a \div g, d |-> b \div g]

IntNum(a) == [nan |-> FALSE, n |-> a, d |-> 1]

\* a + b on numbers: NaN is absorbing
Plus(a, b) ==
  IF a.nan \/ b.nan THEN NaN ELSE Num(a.n * b.d + b.n * a.d, a.d * b.d)

\* a / k for a positive integer k
DivInt(a, k) == IF a.nan THEN NaN ELSE Num(a.n, a.d * k)

\* the value of the leading run of digits of s, and what follows it
RECURSIVE DigitRun(_, _, _)
DigitRun(s, acc, count) ==
  IF s # <<>> /\ IsDigit(Head(s))
    THEN DigitRun(Tail(s), acc * 10 + DigitVal(Head(s)), count + 1)
    ELSE [v |-> acc, count |-> count, rest |-> s]

\* parseInt(s, 10): leading white space, an optional sign, then digits
parseInt(s) ==
  LET t == TrimStart(s)
      neg == t # <<>> /\ Head(t) = "-"
      u == IF t # <<>> /\ Head(t) \in {"-", "+"} THEN Tail(t) ELSE t
      r == DigitRun(u, 0, 0)
  IN IF r.count = 0 THEN NaN
     ELSE IntNum(IF neg THEN 0 - r.v ELSE r.v)

RECURSIVE Pow10(_)
Pow10(k) == IF k = 0 THEN 1 ELSE 10 * Pow10(k - 1)

\* parseFloat(s): leading white space, an optional sign, digits, an optional
\* fraction (exponents and "Infinity" are not modelled)
parseFloat(s) ==
  LET t == TrimStart(s)
      neg == t # <<>> /\ Head(t) = "-"
      u == IF t # <<>> /\ Head(t) \in {"-", "+"} THEN Tail(t) ELSE t
      ip == DigitRun(u, 0, 0)
      hasDot == ip.rest # <<>> /\ Head(ip.rest) = "."
      fp == IF hasDot THEN DigitRun(Tail(ip.rest), 0, 0)
                      ELSE [v |-> 0, count |-> 0, rest |-> ip.rest]
      mag == Num(ip.v * Pow10(fp.count) + fp.v, Pow10(fp.count))
  IN IF ip.count = 0 /\ fp.count = 0 THEN NaN
     ELSE IF neg THEN Num(0 - mag.n, mag.d) ELSE mag

\* x || 0 on a number: NaN and 0 are falsy
OrZero(x) == IF x.nan THEN 0 ELSE x.n

\* s || t on strings: null and "" are falsy
OrStr(s, t) == IF s = null \/ s = <<>> THEN t ELSE s

\* truthiness of a nullable string
Truthy(s) == s # null /\ s # <<>>

----------------------------------------------------------------------------
(* Dates *)

InvalidDate == [valid |-> FALSE, day |-> 0, sec |-> 0]

NullDate == [valid |-> FALSE, day |-> -1, sec |-> -1]

SecPerDay == 86400

\* TimeClip: a Date holds at most 100,000,000 days either side of the epoch
MaxDay == 100000000

\* days since 1970-01-01 of the proleptic Gregorian date y-m-d, m in 1..12
DaysFromCivil(y, m, d) ==
  LET yy == IF m <= 2 THEN y - 1 ELSE y
      era == yy \div 400
      yoe == yy - era * 400
      mp == IF m > 2 THEN m - 3 ELSE m + 9
      doy == (153 * mp + 2) \div 5 + d - 1
      doe == yoe * 365 + yoe \div 4 - yoe \div 100 + doy
  IN era * 146097 + doe - 719468

\* the proleptic Gregorian date of a day number: [y, m (1..12), d]
CivilFromDays(z) ==
  LET zz == z + 719468
      era == zz \div 146097
      doe == zz - era * 146097
      yoe == (doe - doe \div 1460 + doe \div 36524 - doe \div 146096) \div 365
      doy == doe - (365 * yoe + yoe \div 4 - yoe \div 100)
      mp == (5 * doy + 2) \div 153
      d == doy - (153 * mp + 2) \div 5 + 1
      m == IF mp < 10 THEN mp + 3 ELSE mp - 9
  IN [y |-> IF m <= 2 THEN yoe + era * 400 + 1 ELSE yoe + era * 400,
      m |-> m, d |-> d]

\* new Date(year, month, day, hours, minutes, seconds) on numbers: a NaN
\* argument gives Invalid Date, a year in 0..99 means 1900 + year, and month,
\* day and time out of range carry into the neighbouring month, year or day
NewDate(year, month, day, hours, minutes, seconds) ==
  IF year.nan \/ month.nan \/ day.nan THEN InvalidDate
  ELSE
    LET yr == IF year.n >= 0 /\ year.n <= 99 THEN 1900 + year.n ELSE year.n
        ym == yr + (month.n \div 12)
        mn == month.n % 12
        secs == hours * 3600 + minutes * 60 + seconds
        dayNo == DaysFromCivil(ym, mn + 1, 1) + day.n - 1 + (secs \div SecPerDay)
    IN IF Abs(yr) > 300000 \/ Abs(day.n) > MaxDay \/ Abs(month.n) > MaxDay
            \/ Abs(dayNo) > MaxDay
         THEN InvalidDate
         ELSE [valid |-> TRUE, day |-> dayNo, sec |-> secs % SecPerDay]

getFullYear(date) == CivilFromDays(date.day).y

\* Date.prototype.getMonth: 0-based
getMonth(date) == CivilFromDays(date.day).m - 1

getDate(date) == CivilFromDays(date.day).d

DaysInMonth(y, m) == DaysFromCivil(IF m = 12 THEN y + 1 ELSE y, IF m = 12 THEN 1 ELSE m + 1, 1)
                       - DaysFromCivil(y, m, 1)

\* offset of the host's local time from UTC, in seconds (the vi-VN host: UTC+7)
HostOffsetSec == 7 * 3600

AllDigits(s) == \A i \in 1..Len(s) : IsDigit(s[i])

\* new Date(string): the ISO date-only form "YYYY-MM-DD" is read as midnight
\* UTC; every other string of the model's inputs is not a date to the host
\* parser (what else a host accepts is implementation-defined)
DateParse(s) ==
  IF /\ Len(s) = 10
     /\ s[5] = "-" /\ s[8] = "-"
     /\ AllDigits(SubSeq(s, 1, 4)) /\ AllDigits(SubSeq(s, 6, 7))
     /\ AllDigits(SubSeq(s, 9, 10))
  THEN
    LET y == parseInt(SubSeq(s, 1, 4)).n
        m == parseInt(SubSeq(s, 6, 7)).n
        d == parseInt(SubSeq(s, 9, 10)).n
    IN IF m >= 1 /\ m <= 12 /\ d >= 1 /\ d <= DaysInMonth(y, m)
         THEN [valid |-> TRUE,
               day |-> DaysFromCivil(y, m, d) + (HostOffsetSec \div SecPerDay),
               sec |-> HostOffsetSec % SecPerDay]
         ELSE InvalidDate
  ELSE InvalidDate

\* parseTransferDate: "DD/MM/YYYY" or "DD/MM/YYYY HH:MM:SS", else the host
\* parser; NullDate is the null result
parseTransferDate(dateString) ==
  IF ~Truthy(dateString) THEN NullDate
  ELSE
    LET parts == split(trim(dateString), " ")
        dateParts == split(parts[1], "/")
    IN IF Len(dateParts) = 3
         THEN
           LET day == parseInt(dateParts[1])
               month0 == parseInt(dateParts[2])
               month == IF month0.nan THEN NaN ELSE IntNum(month0.n - 1)
               year == parseInt(dateParts[3])
               timeParts == IF Len(parts) = 2 /\ parts[2] # <<>>
                              THEN split(parts[2], ":") ELSE <<>>
               hasTime == Len(timeParts) >= 2
               hours == IF hasTime THEN OrZero(parseInt(timeParts[1])) ELSE 0
               minutes == IF hasTime THEN OrZero(parseInt(timeParts[2])) ELSE 0
               seconds == IF hasTime /\ Len(timeParts) >= 3
                            THEN OrZero(parseInt(timeParts[3])) ELSE 0
               date == NewDate(year, month, day, hours, minutes, seconds)
           IN IF ~date.valid THEN NullDate ELSE date
         ELSE
           LET fallbackDate == DateParse(dateString)
           IN IF fallbackDate.valid THEN fallbackDate ELSE NullDate

\* `${getFullYear()}-${String(getMonth() + 1).padStart(2, "0")}`
MonthYear(date) ==
  NumToString(getFullYear(date)) \o <<"-">> \o padStart(NumToString(getMonth(date) + 1), 2)

\* `${MonthYear}-${String(getDate()).padStart(2, "0")}`
DateStr(date) == MonthYear(date) \o <<"-">> \o padStart(NumToString(getDate(date)), 2)

----------------------------------------------------------------------------
(* Filters and aggregates *)

\* FilterState of the initial useState calls: every key inactive
EmptyFilter == [month |-> <<>>, date |-> <<>>, sender |-> <<>>, receiver |-> <<>>]

\* the filter callback returning false for every row without a date
MatchesDatedOnly(transaction, filter) ==
  LET transactionDate == parseTransferDate(transaction.transfer_time)
      hasDate == transactionDate # NullDate
  IN /\ hasDate
     /\ ~(Truthy(filter.month) /\ MonthYear(transactionDate) # filter.month)
     /\ ~(Truthy(filter.date) /\ DateStr(transactionDate) # filter.date)
     /\ ~(/\ Truthy(filter.sender)
          /\ ~includes(toLowerCase(transaction.sender), toLowerCase(filter.sender)))
     /\ ~(/\ Truthy(filter.receiver)
          /\ Truthy(transaction.receiver)
          /\ ~includes(toLowerCase(transaction.receiver), toLowerCase(filter.receiver)))

\* the callback of transactions.filter: does the transaction pass the filter
Matches(transaction, filter) ==
  LET transactionDate == parseTransferDate(transaction.transfer_time)
      hasDate == transactionDate # NullDate
  IN /\ ~(Truthy(filter.month) /\ hasDate /\ MonthYear(transactionDate) # filter.month)
     /\ ~(Truthy(filter.date) /\ hasDate /\ DateStr(transactionDate) # filter.date)
     /\ ~(/\ Truthy(filter.sender)
          /\ ~includes(toLowerCase(transaction.sender), toLowerCase(filter.sender)))
     /\ ~(/\ Truthy(filter.receiver)
          /\ Truthy(transaction.receiver)
          /\ ~includes(toLowerCase(transaction.receiver), toLowerCase(filter.receiver)))

\* filterTransactions over a given collection
FilterOf(txs, filter) == SelectSeq(txs, LAMBDA t : Matches(t, filter))

\* filtered.reduce((sum, t) => sum + parseFloat(t.amount || "0"), 0)
RECURSIVE SumAmounts(_)
SumAmounts(txs) ==
  IF txs = <<>> THEN IntNum(0)
  ELSE Plus(SumAmounts(SubSeq(txs, 1, Len(txs) - 1)),
            parseFloat(OrStr(txs[Len(txs)].amount, <<"0">>)))

\* the number total of totalAmountStats
TotalOf(txs, filter) == SumAmounts(FilterOf(txs, filter))

\* avgAmountStats dividing by the length whatever it is: 0 / 0 is NaN
AvgOfUnguarded(txs, filter) ==
  LET filtered == FilterOf(txs, filter)
      total == SumAmounts(filtered)
  IN IF Len(filtered) > 0 THEN DivInt(total, Len(filtered)) ELSE NaN

\* the number avg of avgAmountStats
AvgOf(txs, filter) ==
  LET filtered == FilterOf(txs, filter)
      total == SumAmounts(filtered)
  IN IF Len(filtered) > 0 THEN DivInt(total, Len(filtered)) ELSE IntNum(0)

\* combinedFilter with the average card scanned first
CombinedOfAvgFirst(totalFilter, avgFilter) ==
  [month |-> OrStr(avgFilter.month, totalFilter.month),
   date |-> OrStr(avgFilter.date, totalFilter.date),
   sender |-> avgFilter.sender,
   receiver |-> <<>>]

\* combinedFilter of two card specs
CombinedOf(totalFilter, avgFilter) ==
  [month |-> OrStr(totalFilter.month, avgFilter.month),
   date |-> OrStr(totalFilter.date, avgFilter.date),
   sender |-> avgFilter.sender,
   receiver |-> <<>>]

----------------------------------------------------------------------------
(* Inputs *)

\* longest transaction collection the gateway returns
MaxRows == 2

\* page reloads followed
MaxReloads == 1

\* rows of the transactions table (bank_name and txn_hash are never read)
Row1 == [id |-> 1, sender |-> <<"A", "n">>, receiver |-> <<"B">>,
         transfer_time |-> <<"1", "5", "/", "0", "1", "/", "2", "0", "2", "4", " ", "1", "0", ":", "0", "0", ":", "0", "0">>, amount |-> <<"1", "0", "0">>]

Row2 == [id |-> 2, sender |-> <<"L", "a", "n">>, receiver |-> null,
         transfer_time |-> <<"0", "5", "/", "0", "3", "/", "2", "0", "2", "4">>, amount |-> <<"5", "0">>]

Row3 == [id |-> 3, sender |-> <<"a", "n">>, receiver |-> <<"b">>,
         transfer_time |-> null, amount |-> <<"a", "b", "c">>]

Row4 == [id |-> 4, sender |-> <<"C">>, receiver |-> <<"D">>,
         transfer_time |-> <<"3", "1", "/", "0", "2", "/", "2", "0", "2", "4">>, amount |-> null]

Row5 == [id |-> 5, sender |-> <<"B", "a">>, receiver |-> <<"L", "a", "n">>,
         transfer_time |-> <<"a", "b", "c">>, amount |-> <<"1", "2", ".", "5">>]

Rows == {Row1, Row2, Row3, Row4, Row5}

\* collections of distinct rows, at most MaxRows long
Collections ==
  UNION {{c \in [1..k -> Rows] : \A i, j \in 1..k : i # j => c[i] # c[j]} : k \in 0..MaxRows}

\* values of the month input, the date input and the sender text input
MonthInputs == {<<>>, <<"2", "0", "2", "4", "-", "0", "1">>, <<"2", "0", "2", "4", "-", "0", "3">>}

DateInputs == {<<>>, <<"2", "0", "2", "4", "-", "0", "1", "-", "1", "5">>, <<"2", "0", "2", "4", "-", "0", "3", "-", "0", "2">>}

SenderInputs == {<<>>, <<"a", "n">>, <<"L">>}

ReceiverInputs == {<<>>, <<"b">>}

FilterStates ==
  [month : MonthInputs, date : DateInputs, sender : SenderInputs, receiver : ReceiverInputs]

\* answers of supabase.from("transactions").select("*")
NoError == [message |-> <<>>, hint |-> <<>>]

DbErrors == {[message |-> <<"permission denied">>, hint |-> <<>>],
             [message |-> <<"relation missing">>, hint |-> <<"check schema">>]}

Responses ==
  {[kind |-> "answer", hasData |-> TRUE, data |-> c, error |-> NoError] : c \in Collections}
  \cup {[kind |-> "answer", hasData |-> FALSE, data |-> <<>>, error |-> NoError]}
  \cup {[kind |-> "answer", hasData |-> FALSE, data |-> <<>>, error |-> e] : e \in DbErrors}
  \cup {[kind |-> "rejectError", hasData |-> FALSE, data |-> <<>>,
         error |-> [message |-> <<"Failed to fetch">>, hint |-> <<>>]],
        [kind |-> "rejectOther", hasData |-> FALSE, data |-> <<>>, error |-> NoError]}

NoResponse == [kind |-> "none", hasData |-> FALSE, data |-> <<>>, error |-> NoError]

----------------------------------------------------------------------------
(* The gateway call *)

\* getTransactions throwing when the table has no rows
getTransactionsThrowsOnEmpty(resp) ==
  IF resp.kind = "rejectError"
    THEN [threw |-> TRUE, isError |-> TRUE, message |-> resp.error.message,
          isNull |-> FALSE, data |-> <<>>]
  ELSE IF resp.kind = "rejectOther"
    THEN [threw |-> TRUE, isError |-> FALSE, message |-> <<>>,
          isNull |-> FALSE, data |-> <<>>]
  ELSE IF resp.error # NoError
    THEN [threw |-> TRUE, isError |-> TRUE,
          message |-> <<"Supabase Error: ">> \o resp.error.message
                      \o (IF Truthy(resp.error.hint)
                            THEN <<" (Hint: ">> \o resp.error.hint \o <<")">>
                            ELSE <<>>),
          isNull |-> FALSE, data |-> <<>>]
  ELSE IF ~resp.hasData \/ resp.data = <<>>
    THEN [threw |-> TRUE, isError |-> TRUE, message |-> <<"No transactions found">>,
          isNull |-> FALSE, data |-> <<>>]
  ELSE [threw |-> FALSE, isError |-> FALSE, message |-> <<>>,
        isNull |-> FALSE, data |-> resp.data]

\* getTransactions after its await: the rows it returns (returned, with
\* isNull for a null data), or the message of the Error it throws
getTransactions(resp) ==
  IF resp.kind = "rejectError"
    THEN [threw |-> TRUE, isError |-> TRUE, message |-> resp.error.message,
          isNull |-> FALSE, data |-> <<>>]
  ELSE IF resp.kind = "rejectOther"
    THEN [threw |-> TRUE, isError |-> FALSE, message |-> <<>>,
          isNull |-> FALSE, data |-> <<>>]
  ELSE IF resp.error # NoError
    THEN [threw |-> TRUE, isError |-> TRUE,
          message |-> <<"Supabase Error: ">> \o resp.error.message
                      \o (IF Truthy(resp.error.hint)
                            THEN <<" (Hint: ">> \o resp.error.hint \o <<")">>
                            ELSE <<>>),
          isNull |-> FALSE, data |-> <<>>]
  ELSE [threw |-> FALSE, isError |-> FALSE, message |-> <<>>,
        isNull |-> ~resp.hasData, data |-> resp.data]

----------------------------------------------------------------------------
(* The dashboard *)

VARIABLES
  transactions,       \* useState<Transaction[]>
  loading,            \* useState(true)
  error,              \* useState<string | null>
  totalAmountFilter,  \* FilterState of the Total Amount card
  avgAmountFilter,    \* FilterState of the Average Amount card
  showFilter,         \* showFilter of each StatCard
  effectRan,          \* the mount effect of this page load has run
  pending,            \* ids of this document's fetches the gateway has not answered
  pageLoad,           \* page loads so far (0 = the first)
  fetchSeq,           \* fetches issued so far, over all page loads
  fetchCount,         \* fetches issued by this page load
  applied,            \* the fetch whose answer set the state shown, and the answer
  aborted,            \* ids of the fetches a reload discarded unanswered
  lastOp,             \* the handler that ran last
  call                \* a direct call of a pure function: arguments and result

vars == <<transactions, loading, error, totalAmountFilter, avgAmountFilter,
          showFilter, effectRan, pending, pageLoad, fetchSeq, fetchCount,
          applied, aborted, lastOp, call>>

Cards == {"total", "avg"}

NoCall == [op |-> "none"]

NotApplied == [id |-> 0, resp |-> NoResponse]

\* the component state of a fresh document: the useState initial values
FreshState ==
  /\ transactions = <<>>
  /\ loading = TRUE
  /\ error = null
  /\ totalAmountFilter = EmptyFilter
  /\ avgAmountFilter = EmptyFilter
  /\ showFilter = [c \in Cards |-> FALSE]
  /\ effectRan = FALSE
  /\ pending = {}
  /\ fetchCount = 0
  /\ applied = NotApplied

Init ==
  /\ FreshState
  /\ pageLoad = 0
  /\ fetchSeq = 0
  /\ aborted = {}
  /\ lastOp = "load"
  /\ call = NoCall

\* which of the three returns of the component renders
View == IF loading THEN "loading" ELSE IF Truthy(error) THEN "error" ELSE "data"

filterTransactions(filter) == FilterOf(transactions, filter)

combinedFilter == CombinedOf(totalAmountFilter, avgAmountFilter)

totalAmount == TotalOf(transactions, totalAmountFilter)

avgAmount == AvgOf(transactions, avgAmountFilter)

tableTransactions == filterTransactions(combinedFilter)

\* a wiring that also gives the average card a month input
FilterKeysAvgWithMonth(card) ==
  IF card = "total" THEN <<"month", "date">> ELSE <<"month", "sender">>

\* the filters prop of each card: its keys, in order
FilterKeys(card) == IF card = "total" THEN <<"month", "date">> ELSE <<"sender">>

\* the spec a card's filters prop shows
CardFilter(card) == IF card = "total" THEN totalAmountFilter ELSE avgAmountFilter

\* values the input of a key can produce
InputValues(key) ==
  IF key = "month" THEN MonthInputs
  ELSE IF key = "date" THEN DateInputs
  ELSE SenderInputs

\* onFilterChange without the spread: { [key]: value } over an empty spec
onFilterChangeNoSpread(rendered, key, value) == [EmptyFilter EXCEPT ![key] = value]

\* the argument onFilterChange hands to the setter: {...filter, [key]: value}
\* over the card's spec as of the render that created the handler
onFilterChange(rendered, key, value) == [rendered EXCEPT ![key] = value]

\* the state after a batch of setState(value) calls of one event: the last value
RECURSIVE AfterSetStates(_, _)
AfterSetStates(current, values) ==
  IF values = <<>> THEN current
  ELSE AfterSetStates(Head(values), Tail(values))

\* hasActiveFilter of a StatCard
hasActiveFilter(card) ==
  \E i \in 1..Len(FilterKeys(card)) : Truthy(CardFilter(card)[FilterKeys(card)[i]])

\* a clear-all that empties only the first active key of the card
ClearAllResultFirstActive(card) ==
  LET keys == FilterKeys(card)
      rendered == CardFilter(card)
      active == {i \in 1..Len(keys) : Truthy(rendered[keys[i]])}
  IN IF active = {} THEN rendered
     ELSE onFilterChange(rendered,
                         keys[CHOOSE i \in active : \A j \in active : i <= j], <<>>)

\* filters.forEach((f) => onFilterChange(f.key, "")): the spec it leaves
ClearAllResult(card) ==
  LET keys == FilterKeys(card)
      rendered == CardFilter(card)
  IN AfterSetStates(rendered, [i \in 1..Len(keys) |-> onFilterChange(rendered, keys[i], <<>>)])

SetCardFilter(card, value) ==
  /\ totalAmountFilter' = IF card = "total" THEN value ELSE totalAmountFilter
  /\ avgAmountFilter' = IF card = "avg" THEN value ELSE avgAmountFilter

\* useEffect(..., []): fetchTransactions up to its await
MountEffect ==
  /\ ~effectRan
  /\ effectRan' = TRUE
  /\ loading' = TRUE
  /\ fetchSeq' = fetchSeq + 1
  /\ fetchCount' = fetchCount + 1
  /\ pending' = pending \cup {fetchSeq + 1}
  /\ lastOp' = "MountEffect"
  /\ UNCHANGED <<transactions, error, totalAmountFilter, avgAmountFilter,
                 showFilter, pageLoad, applied, aborted, call>>

\* fetchTransactions issuing the fetch again when getTransactions throws
FetchSettleRetrying(id, resp) ==
  /\ id \in pending
  /\ LET r == getTransactions(resp)
     IN IF ~r.threw
          THEN /\ transactions' = (IF r.isNull THEN <<>> ELSE r.data)
               /\ error' = null
               /\ pending' = pending \ {id}
               /\ UNCHANGED <<fetchSeq, fetchCount>>
          ELSE /\ error' = (IF r.isError THEN r.message
                                         ELSE <<"Failed to fetch transactions">>)
               /\ transactions' = <<>>
               /\ IF fetchCount < 2
                    THEN /\ pending' = (pending \ {id}) \cup {fetchSeq + 1}
                         /\ fetchSeq' = fetchSeq + 1
                         /\ fetchCount' = fetchCount + 1
                    ELSE /\ pending' = pending \ {id}
                         /\ UNCHANGED <<fetchSeq, fetchCount>>
  /\ loading' = FALSE
  /\ applied' = [id |-> id, resp |-> resp]
  /\ lastOp' = "FetchSettle"
  /\ UNCHANGED <<totalAmountFilter, avgAmountFilter, showFilter, effectRan,
                 pageLoad, aborted, call>>

\* fetchTransactions without its finally block: a thrown getTransactions
\* leaves loading as it was
FetchSettleNoFinally(id, resp) ==
  /\ id \in pending
  /\ pending' = pending \ {id}
  /\ LET r == getTransactions(resp)
     IN IF ~r.threw
          THEN /\ transactions' = (IF r.isNull THEN <<>> ELSE r.data)
               /\ error' = null
               /\ loading' = FALSE
          ELSE /\ error' = (IF r.isError THEN r.message
                                         ELSE <<"Failed to fetch transactions">>)
               /\ transactions' = <<>>
               /\ UNCHANGED loading
  /\ applied' = [id |-> id, resp |-> resp]
  /\ lastOp' = "FetchSettle"
  /\ UNCHANGED <<totalAmountFilter, avgAmountFilter, showFilter, effectRan,
                 pageLoad, fetchSeq, fetchCount, aborted, call>>

\* fetchTransactions after its await: the gateway answers fetch id with resp
FetchSettle(id, resp) ==
  /\ id \in pending
  /\ pending' = pending \ {id}
  /\ LET r == getTransactions(resp)
     IN IF ~r.threw
          THEN /\ transactions' = (IF r.isNull THEN <<>> ELSE r.data)
               /\ error' = null
          ELSE /\ error' = (IF r.isError THEN r.message
                                         ELSE <<"Failed to fetch transactions">>)
               /\ transactions' = <<>>
  /\ loading' = FALSE
  /\ applied' = [id |-> id, resp |-> resp]
  /\ lastOp' = "FetchSettle"
  /\ UNCHANGED <<totalAmountFilter, avgAmountFilter, showFilter, effectRan,
                 pageLoad, fetchSeq, fetchCount, aborted, call>>

\* the Filter / Hide button of a card
ToggleShowFilter(card) ==
  /\ View = "data"
  /\ showFilter' = [showFilter EXCEPT ![card] = ~showFilter[card]]
  /\ lastOp' = "ToggleShowFilter"
  /\ UNCHANGED <<transactions, loading, error, totalAmountFilter, avgAmountFilter,
                 effectRan, pending, pageLoad, fetchSeq, fetchCount, applied, aborted, call>>

\* onChange of the input of a card's key
FilterInput(card, key, value) ==
  /\ View = "data"
  /\ showFilter[card]
  /\ \E i \in 1..Len(FilterKeys(card)) : FilterKeys(card)[i] = key
  /\ value # CardFilter(card)[key]
  /\ SetCardFilter(card, onFilterChange(CardFilter(card), key, value))
  /\ lastOp' = "FilterInput"
  /\ UNCHANGED <<transactions, loading, error, showFilter, effectRan, pending,
                 pageLoad, fetchSeq, fetchCount, applied, aborted, call>>

\* onClick of a card's Clear All Filters button
ClearAll(card) ==
  /\ View = "data"
  /\ showFilter[card]
  /\ hasActiveFilter(card)
  /\ SetCardFilter(card, ClearAllResult(card))
  /\ lastOp' = "ClearAll"
  /\ UNCHANGED <<transactions, loading, error, showFilter, effectRan, pending,
                 pageLoad, fetchSeq, fetchCount, applied, aborted, call>>

\* a reload that leaves the requests of the old document in flight
ReloadKeepingRequests ==
  /\ pageLoad < MaxReloads
  /\ pageLoad' = pageLoad + 1
  /\ transactions' = <<>>
  /\ loading' = TRUE
  /\ error' = null
  /\ totalAmountFilter' = EmptyFilter
  /\ avgAmountFilter' = EmptyFilter
  /\ showFilter' = [c \in Cards |-> FALSE]
  /\ effectRan' = FALSE
  /\ fetchCount' = 0
  /\ applied' = NotApplied
  /\ UNCHANGED <<pending, aborted, fetchSeq, call>>

\* window.location.reload(): the document and its requests are discarded and
\* the component starts again from its initial state
Reload ==
  /\ pageLoad < MaxReloads
  /\ pageLoad' = pageLoad + 1
  /\ transactions' = <<>>
  /\ loading' = TRUE
  /\ error' = null
  /\ totalAmountFilter' = EmptyFilter
  /\ avgAmountFilter' = EmptyFilter
  /\ showFilter' = [c \in Cards |-> FALSE]
  /\ effectRan' = FALSE
  /\ pending' = {}
  /\ aborted' = aborted \cup pending
  /\ fetchCount' = 0
  /\ applied' = NotApplied
  /\ UNCHANGED <<fetchSeq, call>>

\* the Retry button of the error view
Retry ==
  /\ View = "error"
  /\ Reload
  /\ lastOp' = "Retry"

\* the user reloads the page from the browser, at any time
BrowserReload ==
  /\ Reload
  /\ lastOp' = "BrowserReload"

Next ==
  \/ MountEffect
  \/ \E id \in pending, resp \in Responses : FetchSettle(id, resp)
  \/ \E card \in Cards : ToggleShowFilter(card)
  \/ \E card \in Cards, key \in {"month", "date", "sender"} :
       \E value \in InputValues(key) : FilterInput(card, key, value)
  \/ \E card \in Cards : ClearAll(card)
  \/ Retry
  \/ BrowserReload

Spec == Init /\ [][Next]_vars

\* the dashboard when React runs the mount effect of each page load and the
\* gateway answers every fetch that stays pending
SpecLive ==
  /\ Spec
  /\ WF_vars(MountEffect)
  /\ WF_vars(\E id \in pending, resp \in Responses : FetchSettle(id, resp))

----------------------------------------------------------------------------
(* Direct calls of the pure functions, over bounded inputs *)

\* day, month and year components of the generated "DD/MM/YYYY" strings
DmyDays == {0, 1, 2, 5, 15, 28, 29, 30, 31, 32}

DmyMonths == {0, 1, 2, 3, 5, 12, 13}

DmyYears == {50, 2023, 2024}

Pad(n, width) == padStart(NumToString(n), width)

\* "DD/MM/YYYY"
DmyString(d, m, y) == Pad(d, 2) \o <<"/">> \o Pad(m, 2) \o <<"/">> \o Pad(y, 4)

\* "DD/MM/YYYY HH:MM:SS"
DmyTimeString(d, m, y) == DmyString(d, m, y) \o <<" ", "1", "0", ":", "3", "0", ":", "0", "0">>

DmyStrings ==
  {DmyString(d, m, y) : d \in DmyDays, m \in DmyMonths, y \in DmyYears}
  \cup {DmyTimeString(d, m, y) : d \in DmyDays, m \in DmyMonths, y \in DmyYears}

\* other transfer_time values
RawStrings ==
  {null, <<>>, <<"a", "b", "c">>, <<"a", "/", "b", "/", "c">>, <<"2", "0", "2", "4", "-", "0", "1", "-", "1", "5">>, <<"2", "0", "2", "4", "-", "1", "3", "-", "0", "1">>, <<"1", "5", "/", "0", "1", "/", "2", "0", "2", "4">>,
   <<" ", "1", "5", "/", "0", "1", "/", "2", "0", "2", "4", " ", "2", "3", ":", "5", "9", ":", "5", "9", " ">>, <<"1", "5", "/", "0", "1", "/", "2", "0", "2", "4", " ", "2", "5", ":", "0", "0", ":", "0", "0">>, <<"1", "5", "/", "0", "1", "/", "2", "0", "2", "4", " ", " ", "1", "0", ":", "0", "0">>,
   <<"1", "/", "2", "/", "2", "0", "2", "4">>, <<"1", "5", "/", "0", "1", "/", "2", "4">>, <<"1", "5", "-", "0", "1", "-", "2", "0", "2", "4">>, <<"1", "5", "/", "0", "1">>, <<"1", "5", "/", "0", "1", "/", "2", "0", "2", "4", " ", "1", "0", ":", "0", "0">>,
   <<"-", "1", "/", "0", "1", "/", "2", "0", "2", "4">>, <<"1", "5", "/", "0", "1", "/", "2", "0", "2", "4", "a", "b", "c", " ", "1", "0">>}

\* a row whose transfer_time is raw
RowAt(raw) == [id |-> 9, sender |-> <<"A", "n">>, receiver |-> <<"B">>,
               transfer_time |-> raw, amount |-> <<"1", "0", "0">>]

\* "YYYY-MM" and "YYYY-MM-DD" values of the month and date inputs
MonthValue(y, m) == Pad(y, 4) \o <<"-">> \o Pad(m, 2)

DateValue(y, m, d) == MonthValue(y, m) \o <<"-">> \o Pad(d, 2)

\* the years the month and date inputs are given: 1900 + y is what a Date
\* makes of a year y below 100
InputYears == DmyYears \cup {1900 + y : y \in {x \in DmyYears : x < 100}}

DateFilters ==
  {[EmptyFilter EXCEPT !.month = MonthValue(y, m)] :
      y \in InputYears, m \in DmyMonths \ {0, 13}}
  \cup {[EmptyFilter EXCEPT !.date = DateValue(y, m, d)] :
      y \in InputYears, m \in DmyMonths \ {0, 13}, d \in DmyDays \ {0, 32}}

UnchangedByCall ==
  UNCHANGED <<transactions, loading, error, totalAmountFilter, avgAmountFilter,
              showFilter, effectRan, pending, pageLoad, fetchSeq, fetchCount,
              applied, aborted, lastOp>>

CallParseTransferDate ==
  /\ call = NoCall
  /\ \E raw \in DmyStrings \cup RawStrings :
       call' = [op |-> "parseTransferDate", raw |-> raw,
                result |-> parseTransferDate(raw)]
  /\ UnchangedByCall

CallFilterTransactions ==
  /\ call = NoCall
  /\ \E txs \in Collections, filter \in FilterStates :
       call' = [op |-> "filterTransactions", txs |-> txs, filter |-> filter,
                result |-> FilterOf(txs, filter)]
  /\ UnchangedByCall

\* filterTransactions over one generated row and a month or date filter
CallFilterByDate ==
  /\ call = NoCall
  /\ \E raw \in DmyStrings, filter \in DateFilters :
       call' = [op |-> "filterTransactions", txs |-> <<RowAt(raw)>>,
                filter |-> filter,
                result |-> FilterOf(<<RowAt(raw)>>, filter)]
  /\ UnchangedByCall

CallCombinedFilter ==
  /\ call = NoCall
  /\ \E totalFilter \in FilterStates, avgFilter \in FilterStates :
       call' = [op |-> "combinedFilter", totalFilter |-> totalFilter,
                avgFilter |-> avgFilter,
                result |-> CombinedOf(totalFilter, avgFilter)]
  /\ UnchangedByCall

\* the numbers total and avg of the two statistics
CallAggregates ==
  /\ call = NoCall
  /\ \E txs \in Collections, filter \in FilterStates :
       call' = [op |-> "aggregates", txs |-> txs, filter |-> filter,
                total |-> TotalOf(txs, filter), avg |-> AvgOf(txs, filter)]
  /\ UnchangedByCall

NextFn ==
  \/ CallParseTransferDate
  \/ CallFilterTransactions
  \/ CallFilterByDate
  \/ CallCombinedFilter
  \/ CallAggregates

SpecFn == Init /\ [][NextFn]_vars

----------------------------------------------------------------------------
(* Properties *)

\* row is one of the rows of the sequence txs
InSeq(row, txs) == \E j \in 1..Len(txs) : txs[j] = row

\* the three filters the dashboard applies
AppliedFilters == {totalAmountFilter, avgAmountFilter, combinedFilter}

\* C1: a transaction whose transfer_time cannot be normalised is excluded by
\* every filter whose month or date is active
C1_FailClosedDates ==
  \A i \in 1..Len(transactions) : \A filter \in AppliedFilters :
    (/\ parseTransferDate(transactions[i].transfer_time) = NullDate
     /\ (Truthy(filter.month) \/ Truthy(filter.date)))
    => ~InSeq(transactions[i], filterTransactions(filter))

\* every key of the card's filters prop is empty
AllKeysEmpty(card) ==
  \A i \in 1..Len(FilterKeys(card)) : CardFilter(card)[FilterKeys(card)[i]] = <<>>

\* a card's statistic
Statistic(card) == IF card = "total" THEN totalAmount ELSE avgAmount

\* a card's statistic over the whole collection
UnfilteredStatistic(card) ==
  IF card = "total" THEN TotalOf(transactions, EmptyFilter)
                    ELSE AvgOf(transactions, EmptyFilter)

\* C2: after a card's Clear All Filters every key of the card is empty and
\* its statistic is the one over the whole collection, and when both cards
\* are clear the table shows the whole collection
C2_ClearAllRestores ==
  [][/\ \A card \in Cards :
          ClearAll(card) =>
            (AllKeysEmpty(card) /\ Statistic(card) = UnfilteredStatistic(card))'
     /\ ((\A card \in Cards : AllKeysEmpty(card)) => tableTransactions = transactions)'
    ]_vars

\* what a transaction's amount is worth: 0 when absent or not a number
Contribution(t) ==
  IF ~Truthy(t.amount) \/ parseFloat(t.amount).nan THEN IntNum(0)
  ELSE parseFloat(t.amount)

RECURSIVE SumContributions(_)
SumContributions(txs) ==
  IF txs = <<>> THEN IntNum(0)
  ELSE Plus(Contribution(Head(txs)), SumContributions(Tail(txs)))

\* C3: the total, and the numerator of the average, is the sum of the
\* well-formed amounts of the filtered transactions and is never NaN
C3_MalformedAmountsAbsorbed ==
  /\ ~totalAmount.nan
  /\ totalAmount = SumContributions(filterTransactions(totalAmountFilter))
  /\ ~avgAmount.nan
  /\ SumAmounts(filterTransactions(avgAmountFilter))
       = SumContributions(filterTransactions(avgAmountFilter))

\* the components of a generated "DD/MM/YYYY..." string, as written
DayPart(raw) == SubSeq(raw, 1, 2)

MonthPart(raw) == SubSeq(raw, 4, 5)

YearPart(raw) == SubSeq(raw, 7, 10)

IsLeapYear(y) == (y % 4 = 0 /\ y % 100 # 0) \/ y % 400 = 0

\* days of month m of year y in the Gregorian calendar
MonthLength(y, m) ==
  IF m = 2 THEN (IF IsLeapYear(y) THEN 29 ELSE 28)
  ELSE IF m \in {4, 6, 9, 11} THEN 30
  ELSE 31

\* day d of month m of year y exists
IsCalendarDate(d, m, y) == m \in 1..12 /\ d >= 1 /\ d <= MonthLength(y, m)

\* the generated string names a date that exists
NamesCalendarDate(raw) ==
  IsCalendarDate(DigitRun(DayPart(raw), 0, 0).v, DigitRun(MonthPart(raw), 0, 0).v,
                 DigitRun(YearPart(raw), 0, 0).v)

\* C4: parseTransferDate of a "DD/MM/YYYY" string whose day, month and year
\* are not a calendar date is the unparseable result
C4_InvalidDatesRejected ==
  (/\ call.op = "parseTransferDate"
   /\ call.raw \in DmyStrings
   /\ ~NamesCalendarDate(call.raw))
  => call.result = NullDate

JsOrSpec(a, b) == IF a # <<>> THEN a ELSE b

\* C5: the table filter takes month and date from the total card unless
\* empty, else from the average card, sender from the average card only,
\* and no receiver
C5_FilterMergePriority ==
  call.op = "combinedFilter" =>
    /\ call.result.month = JsOrSpec(call.totalFilter.month, call.avgFilter.month)
    /\ call.result.date = JsOrSpec(call.totalFilter.date, call.avgFilter.date)
    /\ call.result.sender = call.avgFilter.sender
    /\ call.result.receiver = <<>>

C5_Witness ==
  /\ call.op = "combinedFilter"
  /\ call.totalFilter.month = <<"2", "0", "2", "4", "-", "0", "1">>
  /\ call.avgFilter.month = <<"2", "0", "2", "4", "-", "0", "3">>
  /\ call.totalFilter.date = <<>>
  /\ call.avgFilter.date = <<"2", "0", "2", "4", "-", "0", "3", "-", "0", "2">>
  /\ call.totalFilter.sender = <<"L">>
  /\ call.avgFilter.sender = <<"a", "n">>
  /\ call.totalFilter.receiver = <<"b">>
  /\ call.result = [month |-> <<"2", "0", "2", "4", "-", "0", "1">>, date |-> <<"2", "0", "2", "4", "-", "0", "3", "-", "0", "2">>,
                    sender |-> <<"a", "n">>, receiver |-> <<>>]

\* C6: a transaction without a receiver is excluded by every filter whose
\* receiver is active
C6_AbsentReceiverExcluded ==
  call.op = "filterTransactions" =>
    \A i \in 1..Len(call.txs) :
      (~Truthy(call.txs[i].receiver) /\ Truthy(call.filter.receiver))
      => ~InSeq(call.txs[i], call.result)

\* C7: a row with a valid "DD/MM/YYYY" time passes an active month filter
\* exactly when the filter is "YYYY-MM" of its year and second component,
\* and an active date filter exactly when the filter is "YYYY-MM-DD"
C7_DayFirstExactMatch ==
  (/\ call.op = "filterTransactions"
   /\ Len(call.txs) = 1
   /\ call.txs[1].transfer_time \in DmyStrings
   /\ NamesCalendarDate(call.txs[1].transfer_time)
   /\ call.filter \in DateFilters)
  => LET raw == call.txs[1].transfer_time
         ym == YearPart(raw) \o <<"-">> \o MonthPart(raw)
         passes == call.result = call.txs
     IN /\ Truthy(call.filter.month) => (passes <=> call.filter.month = ym)
        /\ Truthy(call.filter.date) =>
             (passes <=> call.filter.date = ym \o <<"-">> \o DayPart(raw))

\* the error state fetchTransactions sets for an answer that makes
\* getTransactions throw
FailureMessage(resp) ==
  IF getTransactions(resp).isError THEN getTransactions(resp).message
  ELSE <<"Failed to fetch transactions">>

\* C8: a rejected fetch leaves loading false, the failure's message in error
\* and no transactions; each page load issues exactly one fetch, and the
\* error view issues none until the page is reloaded
C8_FailureSurfacedNoAutoRetry ==
  /\ [](fetchCount = (IF effectRan THEN 1 ELSE 0))
  /\ []((applied.id # 0 /\ getTransactions(applied.resp).threw) =>
          /\ ~loading
          /\ error # null
          /\ error = FailureMessage(applied.resp)
          /\ transactions = <<>>
          /\ View = "error"
          /\ pending = {})
  /\ [][(View = "error" /\ pageLoad' = pageLoad) =>
          (fetchSeq' = fetchSeq /\ pending' = pending /\ error' = error /\ ~loading')]_vars
  /\ [][(View = "error" /\ pageLoad' # pageLoad) => lastOp' \in {"Retry", "BrowserReload"}]_vars
  /\ [][fetchSeq' # fetchSeq => (lastOp' = "MountEffect" /\ fetchCount = 0)]_vars

\* a second page load, reached by Retry, whose one fetch failed too
C8_Witness ==
  /\ pageLoad = 1
  /\ aborted = {}
  /\ fetchSeq = 2
  /\ fetchCount = 1
  /\ applied.id = 2
  /\ applied.resp.error.hint # <<>>
  /\ View = "error"

\* the state an answer leaves in transactions and error
ShowsAnswer(resp) ==
  LET r == getTransactions(resp)
  IN IF r.threw
       THEN transactions = <<>> /\ error = FailureMessage(resp)
       ELSE transactions = (IF r.isNull THEN <<>> ELSE r.data) /\ error = null

\* C9: only the most recently issued fetch can still be answered, and what
\* is shown once loading ends is the answer to that fetch
C9_LastFetchWins ==
  /\ pending \subseteq {fetchSeq}
  /\ applied.id # 0 => applied.id = fetchSeq
  /\ ~loading => (applied.id = fetchSeq /\ ShowsAnswer(applied.resp))

\* a reload discarded an unanswered fetch and the next fetch was answered
C9_Witness ==
  /\ aborted = {1}
  /\ pageLoad = 1
  /\ ~loading
  /\ applied.id = 2
  /\ Len(transactions) = 2

\* C10: an answer without error and without rows settles in the data view
\* with error null and an empty collection, an answer with an error settles
\* in the error view
C10_EmptyIsNotError ==
  applied.id # 0 =>
    LET resp == applied.resp
    IN /\ (/\ resp.kind = "answer"
           /\ resp.error = NoError
           /\ (~resp.hasData \/ resp.data = <<>>))
          => /\ ~getTransactions(resp).threw
             /\ error = null
             /\ ~loading
             /\ transactions = <<>>
             /\ View = "data"
       /\ (resp.kind = "answer" /\ resp.error # NoError)
          => /\ getTransactions(resp).threw
             /\ Truthy(error)
             /\ ~loading
             /\ View = "error"

\* the gateway answered with null data and no error
C10_Witness ==
  /\ applied.id # 0
  /\ applied.resp.kind = "answer"
  /\ applied.resp.error = NoError
  /\ ~applied.resp.hasData
  /\ View = "data"
  /\ transactions = <<>>

\* C11: when no transaction passes the filter the total and the average are
\* 0; when some pass, the average is the total divided by their count
\* (amounts "100" and "50" give 75)
C11_EmptyAggregatesAreZero ==
  call.op = "aggregates" =>
    LET count == Len(FilterOf(call.txs, call.filter))
    IN /\ count = 0 => (call.total = IntNum(0) /\ call.avg = IntNum(0))
       /\ count > 0 =>
            /\ call.avg.nan = call.total.nan
            /\ call.avg.n * call.total.d * count = call.total.n * call.avg.d
       /\ (call.txs = <<Row1, Row2>> /\ call.filter = EmptyFilter)
            => (call.total = IntNum(150) /\ call.avg = IntNum(75))

\* a collection with rows, none of which passes the filter
C11_Witness ==
  /\ call.op = "aggregates"
  /\ Len(call.txs) = 2
  /\ FilterOf(call.txs, call.filter) = <<>>
  /\ call.total = IntNum(0)
  /\ call.avg = IntNum(0)

\* sub is seq with some of its elements left out, the others in order
RECURSIVE IsSubsequence(_, _)
IsSubsequence(sub, seq) ==
  IF sub = <<>> THEN TRUE
  ELSE IF seq = <<>> THEN FALSE
  ELSE IF Head(sub) = Head(seq) THEN IsSubsequence(Tail(sub), Tail(seq))
  ELSE IsSubsequence(sub, Tail(seq))

\* C12: filterTransactions with every key empty returns the collection as
\* it is; with any spec it returns some of its rows in their order
C12_EmptyFilterIsIdentity ==
  call.op = "filterTransactions" =>
    /\ call.filter = EmptyFilter => call.result = call.txs
    /\ IsSubsequence(call.result, call.txs)

\* the all-empty filter over a row without a date and with a malformed
\* amount, followed by a row without a receiver
C12_Witness ==
  /\ call.op = "filterTransactions"
  /\ call.filter = EmptyFilter
  /\ call.txs = <<Row3, Row2>>
  /\ call.result = <<Row3, Row2>>

\* C13: a card's clear-all run again right after itself changes nothing: the
\* spec the first run leaves is the spec a second run would set, so the
\* card's statistic and the table stay as the first run left them
C13_ClearAllIdempotent ==
  [][\A card \in Cards :
       ClearAll(card) => (ClearAllResult(card) = CardFilter(card))'
    ]_vars

\* clear-all ran on the total card and its button is still shown
C13_Witness ==
  /\ lastOp = "ClearAll"
  /\ ~showFilter["avg"]
  /\ showFilter["total"]
  /\ hasActiveFilter("total")
  /\ Len(transactions) = 2

AllKeys == {"month", "date", "sender", "receiver"}

\* a card's spec, given the two specs
SpecOf(card, totalFilter, avgFilter) == IF card = "total" THEN totalFilter ELSE avgFilter

\* C14: one edit of one input of a card sets that key of that card's spec
\* and leaves the card's other keys, the other card's spec, the collection,
\* loading and error as they were (the other card's statistic is computed
\* from the collection and that card's spec alone, so it is left as well)
C14_FilterEditFrame ==
  [][\A card \in Cards, key \in {"month", "date", "sender"} :
       \A value \in InputValues(key) :
         FilterInput(card, key, value) =>
           LET before == SpecOf(card, totalAmountFilter, avgAmountFilter)
               after == SpecOf(card, totalAmountFilter', avgAmountFilter')
           IN /\ after[key] = value
              /\ \A k \in AllKeys \ {key} : after[k] = before[k]
              /\ \A other \in Cards \ {card} :
                   SpecOf(other, totalAmountFilter', avgAmountFilter')
                     = SpecOf(other, totalAmountFilter, avgAmountFilter)
              /\ transactions' = transactions
              /\ loading' = loading
              /\ error' = error
    ]_vars

\* an input was edited while the card's other key and the other card's key
\* were set
C14_Witness ==
  /\ lastOp = "FilterInput"
  /\ Truthy(totalAmountFilter.month)
  /\ Truthy(totalAmountFilter.date)
  /\ Truthy(avgAmountFilter.sender)
  /\ Len(transactions) = 2

\* C15: the average card's month and date, the total card's sender and both
\* cards' receiver are always empty, and the table shows exactly the
\* transactions that pass both the total card's filter and the average
\* card's filter, in collection order
C15_TableIsIntersection ==
  /\ avgAmountFilter.month = <<>>
  /\ avgAmountFilter.date = <<>>
  /\ totalAmountFilter.sender = <<>>
  /\ totalAmountFilter.receiver = <<>>
  /\ avgAmountFilter.receiver = <<>>
  /\ tableTransactions
       = SelectSeq(transactions,
                   LAMBDA t : Matches(t, totalAmountFilter) /\ Matches(t, avgAmountFilter))

\* each card's filter keeps a different transaction and the table keeps none
C15_Witness ==
  /\ transactions = <<Row1, Row2>>
  /\ totalAmountFilter.month = <<"2", "0", "2", "4", "-", "0", "1">>
  /\ avgAmountFilter.sender = <<"L">>
  /\ filterTransactions(totalAmountFilter) = <<Row1>>
  /\ filterTransactions(avgAmountFilter) = <<Row2>>
  /\ tableTransactions = <<>>

\* the answer left the gateway's rows and no error: the rows, or none when
\* data is null
SettledWithRows(resp) ==
  /\ resp.kind = "answer"
  /\ resp.error = NoError
  /\ error = null
  /\ transactions = (IF resp.hasData THEN resp.data ELSE <<>>)

\* the answer left an error and no rows
SettledWithError(resp) ==
  /\ resp.kind # "answer" \/ resp.error # NoError
  /\ error # null
  /\ transactions = <<>>

\* C16: within a page load, loading is true exactly until the mount-time
\* fetch is answered and stays false afterwards; a loading page eventually
\* stops loading unless it is discarded by a reload; and whenever loading is
\* false, either error is null and the collection is the gateway's rows
\* (empty for null data), or error is non-null and the collection is empty
C16_LoadingSettles ==
  /\ [](loading <=> applied.id = 0)
  /\ [][(~loading /\ pageLoad' = pageLoad) => ~loading']_vars
  /\ [](~loading => (SettledWithRows(applied.resp) # SettledWithError(applied.resp)))
  /\ \A p \in 0..MaxReloads :
       (loading /\ pageLoad = p) ~> (~loading \/ pageLoad # p)

\* after a reload, the fetch was answered with null data and no error
C16_Witness ==
  /\ pageLoad = 1
  /\ ~loading
  /\ applied.resp.kind = "answer"
  /\ ~applied.resp.hasData
  /\ applied.resp.error = NoError
  /\ transactions = <<>>
  /\ error = null

====
